---- MODULE Spec2Model ----
(***************************************************************************)
(* Model of the ARC library: the split-phase chained hash table            *)
(* (src/src/hash_table/hashTable-chained.c), the reference counter         *)
(* (src/src/ReferenceCounter.c) and the reference counting hash table      *)
(* built on both (src/src/RCHashTable.c).                                  *)
(***************************************************************************)
EXTENDS Integers, Sequences, FiniteSets, TLC

(***************************************************************************)
(* Bounds of the model.                                                    *)
(***************************************************************************)
NKeys == 3
NVals == 1
MaxBuckets == 4
MaxRecs == 3
MaxCount == 2
NKeysRC == 2
MaxDestroys == 2
MaxFreed == 1
NThreads == 2
NKeysSync == 1
LoadWindow == 3
MaxReplaces == 1

(***************************************************************************)
(* Program constants.                                                      *)
(***************************************************************************)
DEFAULT_MAX_REHASHES == 5
DEFAULT_MIN_LOAD_FACTOR == 10
DEFAULT_MAX_LOAD_FACTOR == 75
OK == 0
ERR == 0 - 1
NULL == 0
\* UINT_MAX (2^32 - 1) is kept symbolic: its products are computed in MulDiv100
UINT_MAX == 0 - 1

Keys == 1..NKeys
\* the values a caller stores under key k
ValuesOf(k) == {10 * k + i : i \in 1..NVals}
\* the hash the caller supplies with a key (keys 1 and 3 collide in small tables)
HashOf(k) == k * k
\* capacities requested at construction
IniCaps == {0, 2, 3}
\* set-ups of the table: 0 is the table as constructed, n > 0 has the load
\* factors set to 75 and 50 per cent and at most n rehashes per operation
Configs == {0, 1, 2}

\* a destructor passed by the caller, and RC_free as the table's value destructor
FREE == 1
RC_FREE == 2
RECORD_FREE == 3
\* the object the caller passes with the n-th record allocated by an insert
ObjOf(n) == 100 + n
Objects == {NULL} \cup {ObjOf(n) : n \in 1..MaxRecs}

VARIABLES hTable, heap, dcalls, stored, refs, dupAttempt, last, locks, thread

vars == <<hTable, heap, dcalls, stored, refs, dupAttempt, last, locks, thread>>

\* the mutexes and the threads of the synchronized map; a program that uses
\* the other modules has neither
NoLocks == [M |-> 0, E |-> <<>>]
NoThreads == <<>>

(***************************************************************************)
(* 32-bit unsigned words as bit vectors, for the bit-smear rounding.       *)
(***************************************************************************)
Pow2(n) == IF n = 0 THEN 1 ELSE 2 ^ n

ToBits(n) == [i \in 0..31 |-> IF i > 30 THEN 0 ELSE (n \div Pow2(i)) % 2]

RECURSIVE SumBits(_, _)
SumBits(b, i) == IF i < 0 THEN 0 ELSE b[i] * Pow2(i) + SumBits(b, i - 1)

FromBits(b) == SumBits(b, 30)

BitsDec(b) ==
  LET ones == {i \in 0..31 : b[i] = 1}
  IN IF ones = {} THEN [i \in 0..31 |-> 1]
     ELSE LET j == CHOOSE i \in ones : \A m \in ones : i <= m
          IN [i \in 0..31 |-> IF i < j THEN 1 ELSE IF i = j THEN 0 ELSE b[i]]

BitsInc(b) ==
  LET zeros == {i \in 0..31 : b[i] = 0}
  IN IF zeros = {} THEN [i \in 0..31 |-> 0]
     ELSE LET j == CHOOSE i \in zeros : \A m \in zeros : i <= m
          IN [i \in 0..31 |-> IF i < j THEN 0 ELSE IF i = j THEN 1 ELSE b[i]]

BitsShr(b, s) == [i \in 0..31 |-> IF i + s <= 31 THEN b[i + s] ELSE 0]

BitsOr(a, b) == [i \in 0..31 |-> IF a[i] = 1 \/ b[i] = 1 THEN 1 ELSE 0]

round_up_to_the_next_highest_power_of_2(num) ==
  LET n0 == BitsDec(ToBits(num))
      n1 == BitsOr(n0, BitsShr(n0, 1))
      n2 == BitsOr(n1, BitsShr(n1, 2))
      n3 == BitsOr(n2, BitsShr(n2, 4))
      n4 == BitsOr(n3, BitsShr(n3, 8))
      n5 == BitsOr(n4, BitsShr(n4, 16))
      n6 == BitsInc(n5)
  IN IF \A i \in 0..31 : n6[i] = 0 THEN 1 ELSE FromBits(n6)

RECURSIVE BitAnd(_, _)
BitAnd(a, b) ==
  IF a = 0 \/ b = 0 THEN 0
  ELSE (a % 2) * (b % 2) + 2 * BitAnd(a \div 2, b \div 2)

(***************************************************************************)
(* struct hashTable and its private functions.                             *)
(***************************************************************************)
newTable(maxcap) ==
  [capacity |-> maxcap, bitmask |-> maxcap - 1, nelems |-> 0,
   buckets |-> [i \in 0..(maxcap - 1) |-> <<>>]]

\* the absent secondary table (hTable->secondTable == NULL)
NoTable == [capacity |-> 0, bitmask |-> 0, nelems |-> 0, buckets |-> <<>>]

newBucket(key, value) == [key |-> key, hash |-> 0, value |-> value]

\* position in the chain of the first bucket the comparator matches, 0 if none
ChainFind(chain, key) ==
  LET hits == {i \in 1..Len(chain) : chain[i].key = key}
  IN IF hits = {} THEN 0 ELSE CHOOSE i \in hits : \A j \in hits : i <= j

lookup_private(table, key, hash) ==
  LET slot == BitAnd(hash, table.bitmask)
  IN [slot |-> slot, pos |-> ChainFind(table.buckets[slot], key)]

\* unlinks the bucket at position pos of the chain
remove_private(chain, pos) ==
  SubSeq(chain, 1, pos - 1) \o SubSeq(chain, pos + 1, Len(chain))

insert_private_firstSlot(table, key, hash, value, allocOK) ==
  LET position == 0
      chain == table.buckets[position]
  IN IF ChainFind(chain, key) # 0 THEN [t |-> table, st |-> ERR]
     ELSE IF ~allocOK THEN [t |-> table, st |-> ERR]
     ELSE [t |-> [table EXCEPT
                    !.buckets[position] =
                        Append(chain, [newBucket(key, value) EXCEPT !.hash = hash]),
                    !.nelems = @ + 1],
           st |-> OK]

insert_private(table, key, hash, value, allocOK) ==
  LET position == BitAnd(hash, table.bitmask)
      chain == table.buckets[position]
  IN IF ChainFind(chain, key) # 0 THEN [t |-> table, st |-> ERR]
     ELSE IF ~allocOK THEN [t |-> table, st |-> ERR]
     ELSE [t |-> [table EXCEPT
                    !.buckets[position] =
                        Append(chain, [newBucket(key, value) EXCEPT !.hash = hash]),
                    !.nelems = @ + 1],
           st |-> OK]

replace_private(table, key, hash, value, allocOK) ==
  LET position == BitAnd(hash, table.bitmask)
      chain == table.buckets[position]
      pos == ChainFind(chain, key)
  IN IF pos # 0
     THEN [t |-> [table EXCEPT !.buckets[position][pos].value = value], st |-> OK]
     ELSE IF ~allocOK THEN [t |-> table, st |-> ERR]
     ELSE [t |-> [table EXCEPT
                    !.buckets[position] =
                        Append(chain, [newBucket(key, value) EXCEPT !.hash = hash]),
                    !.nelems = @ + 1],
           st |-> OK]

\* (cap * factor) / 100 as the code computes it; cap * UINT_MAX is
\* 100 * (cap * 42949672) + 95 * cap, which fits the word for the capacities here
MulDiv100(cap, factor) ==
  IF factor = UINT_MAX THEN cap * 42949672 + (95 * cap) \div 100
  ELSE (cap * factor) \div 100

updateThresholds_noFloor(h) ==
  LET cap == IF h.secondTable # NoTable THEN h.secondTable.capacity
             ELSE h.table.capacity
  IN [h EXCEPT
        !.rehashCeilThreshold = MulDiv100(cap, h.maxLoadFactor),
        !.rehashFloorThreshold = MulDiv100(cap, h.minLoadFactor)]

updateThresholds(h) ==
  LET cap == IF h.secondTable # NoTable THEN h.secondTable.capacity
             ELSE h.table.capacity
  IN [h EXCEPT
        !.rehashCeilThreshold = MulDiv100(cap, h.maxLoadFactor),
        !.rehashFloorThreshold =
            IF cap # h.minimumCapacity THEN MulDiv100(cap, h.minLoadFactor) ELSE 0]

RECURSIVE rehashLoop(_, _)
rehashLoop(h, n) ==
  IF n = 0 THEN h
  ELSE LET curr == h.table.buckets[h.rehashPoint]
       IN IF curr # <<>> THEN
            LET temp == Head(curr)
                position == BitAnd(temp.hash, h.secondTable.bitmask)
            IN rehashLoop(
                 [h EXCEPT
                    !.table.buckets[h.rehashPoint] = Tail(curr),
                    !.table.nelems = @ - 1,
                    !.secondTable.buckets[position] = <<temp>> \o @,
                    !.secondTable.nelems = @ + 1],
                 n - 1)
          ELSE IF h.rehashPoint # h.table.capacity - 1 THEN
            rehashLoop([h EXCEPT !.rehashPoint = @ + 1], n - 1)
          ELSE [h EXCEPT !.table = h.secondTable, !.secondTable = NoTable]

\* rehash with the new position masked by the primary table's bitmask
RECURSIVE rehashLoop_primaryMask(_, _)
rehashLoop_primaryMask(h, n) ==
  IF n = 0 THEN h
  ELSE LET curr == h.table.buckets[h.rehashPoint]
       IN IF curr # <<>> THEN
            LET temp == Head(curr)
                position == BitAnd(BitAnd(temp.hash, h.table.bitmask),
                                   h.secondTable.bitmask)
            IN rehashLoop_primaryMask(
                 [h EXCEPT
                    !.table.buckets[h.rehashPoint] = Tail(curr),
                    !.table.nelems = @ - 1,
                    !.secondTable.buckets[position] = <<temp>> \o @,
                    !.secondTable.nelems = @ + 1],
                 n - 1)
          ELSE IF h.rehashPoint # h.table.capacity - 1 THEN
            rehashLoop_primaryMask([h EXCEPT !.rehashPoint = @ + 1], n - 1)
          ELSE [h EXCEPT !.table = h.secondTable, !.secondTable = NoTable]

rehash_primaryMask(h) == rehashLoop_primaryMask(h, h.maxRehashes)

\* rehash that performs no iteration
rehash_noIteration(h) == h

rehash(h) == rehashLoop(h, h.maxRehashes)

\* checkRehashThresholds growing as soon as nelems reaches the ceiling
checkRehashThresholds_atCeil(h, tableOK) ==
  IF h.rehashCeilThreshold <= h.table.nelems THEN
    IF ~tableOK THEN [h |-> h, ret |-> 1]
    ELSE [h |-> rehash([updateThresholds(
                          [h EXCEPT !.secondTable = newTable(h.table.capacity * 2)])
                        EXCEPT !.rehashPoint = 0]),
          ret |-> 0]
  ELSE IF h.table.nelems < h.rehashFloorThreshold THEN
    IF ~tableOK THEN [h |-> h, ret |-> 1]
    ELSE [h |-> rehash([updateThresholds(
                          [h EXCEPT !.secondTable = newTable(h.table.capacity \div 2)])
                        EXCEPT !.rehashPoint = 0]),
          ret |-> 0]
  ELSE [h |-> h, ret |-> 0]

checkRehashThresholds(h, tableOK) ==
  IF h.rehashCeilThreshold < h.table.nelems THEN
    IF ~tableOK THEN [h |-> h, ret |-> 1]
    ELSE [h |-> rehash([updateThresholds(
                          [h EXCEPT !.secondTable = newTable(h.table.capacity * 2)])
                        EXCEPT !.rehashPoint = 0]),
          ret |-> 0]
  ELSE IF h.table.nelems < h.rehashFloorThreshold THEN
    IF ~tableOK THEN [h |-> h, ret |-> 1]
    ELSE [h |-> rehash([updateThresholds(
                          [h EXCEPT !.secondTable = newTable(h.table.capacity \div 2)])
                        EXCEPT !.rehashPoint = 0]),
          ret |-> 0]
  ELSE [h |-> h, ret |-> 0]

(***************************************************************************)
(* Public functions of the chained hash table.                             *)
(***************************************************************************)
CHashTable_new(capacity) ==
  LET cap == round_up_to_the_next_highest_power_of_2(capacity)
  IN [kfree |-> NULL,
      vfree |-> NULL,
      maxRehashes |-> DEFAULT_MAX_REHASHES,
      rehashPoint |-> 0,
      minimumCapacity |-> cap,
      maxLoadFactor |-> DEFAULT_MAX_LOAD_FACTOR,
      minLoadFactor |-> DEFAULT_MIN_LOAD_FACTOR,
      rehashCeilThreshold |-> cap * DEFAULT_MAX_LOAD_FACTOR,
      rehashFloorThreshold |-> 0,
      table |-> newTable(cap),
      secondTable |-> NoTable]

CHashTable_setMaxRehashes(h, rehashes) ==
  IF rehashes = 0
  THEN updateThresholds([h EXCEPT !.maxLoadFactor = UINT_MAX, !.minLoadFactor = 0])
  ELSE [h EXCEPT !.maxRehashes = rehashes]

CHashTable_setMaxLoadFactor(h, percentage) ==
  updateThresholds([h EXCEPT !.maxLoadFactor = percentage])

CHashTable_setMinLoadFactor(h, percentage) ==
  updateThresholds([h EXCEPT !.minLoadFactor = percentage])

CHashTable_setKeyFree(h, kfree) == [h EXCEPT !.kfree = kfree]

CHashTable_setValueFree(h, vfree) == [h EXCEPT !.vfree = vfree]

CHashTable_insert(h, key, hashCode, value, bucketOK, tableOK) ==
  IF h.secondTable # NoTable THEN
    LET r == insert_private(h.secondTable, key, hashCode, value, bucketOK)
    IN [h |-> rehash([h EXCEPT !.secondTable = r.t]), ret |-> r.st]
  ELSE
    LET r == insert_private(h.table, key, hashCode, value, bucketOK)
    IN IF r.st = OK THEN checkRehashThresholds([h EXCEPT !.table = r.t], tableOK)
       ELSE [h |-> h, ret |-> r.st]

\* victim is the value of the bucket handed to freeBucket (NULL if none)
\* bucketOK is the outcome of the allocation in the primary table; the
\* allocation in the secondary table, tried after that one failed, succeeds
\* if bucketOK2
CHashTable_replace(h, key, hashCode, value, bucketOK, bucketOK2) ==
  LET r == replace_private(h.table, key, hashCode, value, bucketOK)
  IN IF r.st = OK
     THEN [h |-> IF h.secondTable # NoTable
                 THEN rehash([h EXCEPT !.table = r.t])
                 ELSE [h EXCEPT !.table = r.t],
           ret |-> OK]
     ELSE IF h.secondTable # NoTable
     THEN LET r2 == replace_private(h.secondTable, key, hashCode, value, bucketOK2)
          IN [h |-> rehash([h EXCEPT !.secondTable = r2.t]), ret |-> r2.st]
     ELSE [h |-> h, ret |-> r.st]

CHashTable_remove(h, key, hashCode, tableOK) ==
  LET p1 == lookup_private(h.table, key, hashCode)
      found1 == p1.pos # 0
      victim1 == IF found1 THEN h.table.buckets[p1.slot][p1.pos].value ELSE NULL
      h1 == IF found1
            THEN [h EXCEPT !.table.buckets[p1.slot] = remove_private(@, p1.pos),
                           !.table.nelems = @ - 1]
            ELSE h
      retval1 == IF found1 THEN 0 ELSE 0 - 1
  IN IF h1.secondTable # NoTable THEN
       LET p2 == lookup_private(h1.secondTable, key, hashCode)
           found2 == ~found1 /\ p2.pos # 0
           h2 == IF found2
                 THEN [h1 EXCEPT
                         !.secondTable.buckets[p2.slot] = remove_private(@, p2.pos),
                         !.secondTable.nelems = @ - 1]
                 ELSE h1
       IN [h |-> rehash(h2),
           ret |-> IF found2 THEN 0 ELSE retval1,
           victim |-> IF found2 THEN h1.secondTable.buckets[p2.slot][p2.pos].value
                      ELSE victim1,
           found |-> found1 \/ found2]
     ELSE
       LET c == checkRehashThresholds(h1, tableOK)
       IN [h |-> c.h, ret |-> c.ret, victim |-> victim1, found |-> found1]

\* the value lookup finds, before the migration is advanced
LookupValue(h, key, hashCode) ==
  LET p1 == lookup_private(h.table, key, hashCode)
  IN IF p1.pos # 0 THEN h.table.buckets[p1.slot][p1.pos].value
     ELSE IF h.secondTable # NoTable THEN
       LET p2 == lookup_private(h.secondTable, key, hashCode)
       IN IF p2.pos # 0 THEN h.secondTable.buckets[p2.slot][p2.pos].value ELSE NULL
     ELSE NULL

CHashTable_lookup(h, key, hashCode) ==
  [h |-> IF h.secondTable # NoTable THEN rehash(h) ELSE h,
   val |-> LookupValue(h, key, hashCode)]

(***************************************************************************)
(* Observations of a table state.                                          *)
(***************************************************************************)
\* the buckets chained in a table, as <<slot, position>> pairs
TableBuckets(t) == {<<i, j>> \in (0..(t.capacity - 1)) \X (1..MaxBuckets) :
                      j <= Len(t.buckets[i])}

\* number of buckets that hold the key
Copies(h, key) ==
  Cardinality({p \in TableBuckets(h.table) : h.table.buckets[p[1]][p[2]].key = key})
  + Cardinality({p \in TableBuckets(h.secondTable) :
                   h.secondTable.buckets[p[1]][p[2]].key = key})

\* what a lookup of every key finds
Contents(h) == [k \in Keys |-> LookupValue(h, k, HashOf(k))]

Migrating == hTable.secondTable # NoTable

(***************************************************************************)
(* CHashTable_getSize and CHashTable_flush.  A destructor log d counts the *)
(* invocations of the key and value destructors per key and per value.     *)
(***************************************************************************)
CHashTable_getSize(h) ==
  IF h.secondTable # NoTable
  THEN [h |-> rehash(h), ret |-> h.table.nelems + h.secondTable.nelems]
  ELSE [h |-> h, ret |-> h.table.nelems]

\* the buckets of the table whose key, or whose value, is the object
BucketsWith(t, o) ==
  [key |-> Cardinality({p \in TableBuckets(t) : t.buckets[p[1]][p[2]].key = o}),
   value |-> Cardinality({p \in TableBuckets(t) : t.buckets[p[1]][p[2]].value = o})]

\* the log after freeBucket has been applied to every bucket of the table
flushTableCalls(d, t, kfree, vfree) ==
  [o \in DOMAIN d |->
     d[o] + (IF kfree # NULL THEN BucketsWith(t, o).key ELSE 0)
          + (IF vfree # NULL THEN BucketsWith(t, o).value ELSE 0)]

\* flushTable unchains and frees every bucket; nelems is not written
flushTable(t) == [t EXCEPT !.buckets = [i \in DOMAIN @ |-> <<>>]]

CHashTable_flush(h, d) ==
  IF h.secondTable # NoTable
  THEN [h |-> [h EXCEPT !.table = flushTable(h.secondTable), !.secondTable = NoTable],
        d |-> flushTableCalls(flushTableCalls(d, h.secondTable, h.kfree, h.vfree),
                              h.table, h.kfree, h.vfree)]
  ELSE [h |-> [h EXCEPT !.table = flushTable(h.table)],
        d |-> flushTableCalls(d, h.table, h.kfree, h.vfree)]

(***************************************************************************)
(* The chained hash table used directly: one action per public function.   *)
(* stored is the map the calls describe (the value of the last successful  *)
(* insert of a key not removed since), dupAttempt records that an insert   *)
(* was called with a key that was present.                                 *)
(***************************************************************************)
\* a table as the caller sets it up: constructed, then configured through the
\* setters (cfg = 0 leaves the constructed table as it is)
Configured(capacity, cfg) ==
  IF cfg = 0 THEN CHashTable_new(capacity)
  ELSE CHashTable_setMaxRehashes(
         CHashTable_setMinLoadFactor(
           CHashTable_setMaxLoadFactor(CHashTable_new(capacity), DEFAULT_MAX_LOAD_FACTOR),
           50),
         cfg)

InitHT ==
  /\ \E capacity \in IniCaps, cfg \in Configs : hTable = Configured(capacity, cfg)
  /\ heap = <<>>
  /\ dcalls = [o \in Objects |-> 0]
  /\ refs = [k \in Keys |-> 0]
  /\ stored = [k \in Keys |-> NULL]
  /\ dupAttempt = FALSE
  /\ last = [op |-> "new", key |-> 0, ret |-> 0, pre |-> 0]
  /\ locks = NoLocks
  /\ thread = NoThreads

\* the log after freeBucket: kfree on the key and vfree on the value, if set
freeBucketCalls(d, key, value, kfree, vfree) ==
  [o \in DOMAIN d |->
     d[o] + (IF kfree # NULL /\ o = key THEN 1 ELSE 0)
          + (IF vfree # NULL /\ o = value THEN 1 ELSE 0)]

\* no destructor call is counted beyond the bound
RECURSIVE SumCalls(_, _)
SumCalls(d, S) ==
  IF S = {} THEN 0
  ELSE LET o == CHOOSE x \in S : TRUE IN d[o] + SumCalls(d, S \ {o})

DestroysBounded == SumCalls(dcalls, DOMAIN dcalls) < MaxFreed

HTInsert ==
  \E k \in Keys, fail \in {"none", "bucket", "table"} : \E v \in ValuesOf(k) :
    \E r \in {CHashTable_insert(hTable, k, HashOf(k), v, fail # "bucket", fail # "table")} :
       /\ hTable.table.nelems + hTable.secondTable.nelems < MaxBuckets
       /\ hTable' = r.h
       /\ stored' = IF r.ret >= 0 THEN [stored EXCEPT ![k] = v] ELSE stored
       /\ dupAttempt' = (dupAttempt \/ stored[k] # NULL)
       /\ last' = [op |-> "insert", key |-> k, ret |-> r.ret, pre |-> stored[k]]
       /\ UNCHANGED <<heap, dcalls, refs, locks, thread>>

HTRemove ==
  \E k \in Keys, tableOK \in BOOLEAN :
    \E r \in {CHashTable_remove(hTable, k, HashOf(k), tableOK)} :
       /\ DestroysBounded
       /\ hTable' = r.h
       /\ dcalls' = IF r.found THEN freeBucketCalls(dcalls, k, r.victim, hTable.kfree, hTable.vfree)
                    ELSE dcalls
       /\ stored' = [stored EXCEPT ![k] = NULL]
       /\ last' = [op |-> "remove", key |-> k, ret |-> r.ret, pre |-> stored[k]]
       /\ UNCHANGED <<heap, refs, dupAttempt, locks, thread>>

HTLookup ==
  \E k \in Keys :
    \E r \in {CHashTable_lookup(hTable, k, HashOf(k))} :
       /\ hTable' = r.h
       /\ last' = [op |-> "lookup", key |-> k, ret |-> r.val, pre |-> stored[k]]
       /\ UNCHANGED <<heap, dcalls, stored, refs, dupAttempt, locks, thread>>

NextHT ==
  \/ HTInsert
  \/ HTRemove
  \/ HTLookup

SpecHT == InitHT /\ [][NextHT]_vars

(***************************************************************************)
(* The chained hash table used with CHashTable_replace as well.  A replace *)
(* stores a value of NewValuesOf, which no insert stores, and at most      *)
(* MaxReplaces calls of it are made.                                       *)
(***************************************************************************)
ReplaceCaps == {0}
ReplaceConfigs == {1}
NewValuesOf(k) == {10 * k + 5}

InitReplace ==
  /\ \E capacity \in ReplaceCaps, cfg \in ReplaceConfigs :
        hTable = Configured(capacity, cfg)
  /\ heap = <<>>
  /\ dcalls = [o \in Objects |-> 0]
  /\ refs = [k \in Keys |-> 0]
  /\ stored = [k \in Keys |-> NULL]
  /\ dupAttempt = FALSE
  /\ last = [op |-> "new", key |-> 0, ret |-> 0, pre |-> 0]
  /\ locks = NoLocks
  /\ thread = NoThreads

\* refs[k] counts the replace calls made with key k
RECURSIVE SumOver(_, _)
SumOver(f, S) ==
  IF S = {} THEN 0
  ELSE LET x == CHOOSE y \in S : TRUE IN f[x] + SumOver(f, S \ {x})

Replaces == SumOver(refs, Keys)

HTReplace ==
  \E k \in Keys, fail \in {"none", "bucket", "both"} : \E v \in NewValuesOf(k) :
    \E r \in {CHashTable_replace(hTable, k, HashOf(k), v, fail = "none", fail # "both")} :
       /\ hTable.table.nelems + hTable.secondTable.nelems < MaxBuckets
       /\ Replaces < MaxReplaces
       /\ hTable' = r.h
       /\ stored' = IF r.ret = OK THEN [stored EXCEPT ![k] = v] ELSE stored
       /\ refs' = [refs EXCEPT ![k] = @ + 1]
       /\ last' = [op |-> "replace", key |-> k, ret |-> r.ret, pre |-> stored[k]]
       /\ UNCHANGED <<heap, dcalls, dupAttempt, locks, thread>>

NextReplace ==
  \/ HTInsert
  \/ HTRemove
  \/ HTLookup
  \/ HTReplace

SpecReplace == InitReplace /\ [][NextReplace]_vars

(***************************************************************************)
(* The chained hash table with key and value destructors set, used with    *)
(* CHashTable_getSize and CHashTable_flush as well.                        *)
(***************************************************************************)
\* capacities and set-ups the table is constructed with
FlushCaps == {0}
FlushConfigs == {1}
\* the keys and values the destructors are invoked on
FlushObjects == Keys \cup UNION {ValuesOf(k) : k \in Keys}

InitFlush ==
  /\ \E capacity \in FlushCaps, cfg \in FlushConfigs :
       hTable = CHashTable_setValueFree(
                  CHashTable_setKeyFree(Configured(capacity, cfg), FREE), FREE)
  /\ heap = <<>>
  /\ dcalls = [o \in FlushObjects |-> 0]
  /\ refs = [k \in Keys |-> 0]
  /\ stored = [k \in Keys |-> NULL]
  /\ dupAttempt = FALSE
  /\ last = [op |-> "new", key |-> 0, ret |-> 0, pre |-> 0]
  /\ locks = NoLocks
  /\ thread = NoThreads

HTGetSize ==
  \E r \in {CHashTable_getSize(hTable)} :
    /\ hTable' = r.h
    /\ last' = [op |-> "getSize", key |-> 0, ret |-> r.ret, pre |-> 0]
    /\ UNCHANGED <<heap, dcalls, stored, refs, dupAttempt, locks, thread>>

HTFlush ==
  \E r \in {CHashTable_flush(hTable, dcalls)} :
    /\ DestroysBounded
    /\ hTable' = r.h
    /\ dcalls' = r.d
    /\ stored' = [k \in Keys |-> NULL]
    /\ last' = [op |-> "flush", key |-> 0, ret |-> 0, pre |-> 0]
    /\ UNCHANGED <<heap, refs, dupAttempt, locks, thread>>

NextFlush ==
  \/ HTInsert
  \/ HTRemove
  \/ HTLookup
  \/ HTGetSize
  \/ HTFlush

SpecFlush == InitFlush /\ [][NextFlush]_vars

(***************************************************************************)
(* The chained hash table under a caller that keeps calling: insert,       *)
(* remove, lookup and getSize, with the next call always made.             *)
(***************************************************************************)
\* a table of capacity 1 with the load factors set and 1 or 2 rehashes per call
InitMigration ==
  /\ \E cfg \in {1, 2} : hTable = Configured(0, cfg)
  /\ heap = <<>>
  /\ dcalls = [o \in Objects |-> 0]
  /\ refs = [k \in Keys |-> 0]
  /\ stored = [k \in Keys |-> NULL]
  /\ dupAttempt = FALSE
  /\ last = [op |-> "new", key |-> 0, ret |-> 0, pre |-> 0]
  /\ locks = NoLocks
  /\ thread = NoThreads

NextMigration ==
  \/ HTGetSize
  \/ HTLookup
  \/ HTRemove
  \/ HTInsert

SpecMigration == InitMigration /\ [][NextMigration]_vars /\ WF_vars(NextMigration)

(***************************************************************************)
(* A heavily loaded table with resizing switched off.  The table was       *)
(* constructed, CHashTable_setMaxRehashes(h, 0) was called, and keys were  *)
(* inserted, none of which started a migration.  The state keeps the       *)
(* capacity and the element count of the table; the chains, millions of    *)
(* buckets long, are not represented (buckets is <<>>).  The calls are     *)
(* those of absent keys (insert) and present keys (remove), made when the  *)
(* allocation of a secondary table would fail, so that a call that         *)
(* crosses a threshold answers 1 and the table stays as it is.             *)
(***************************************************************************)
LoadCaps == {1, 2, 4, 8}
LoadRehashes == {0, 1, 2}

Loaded(h, n) == [h EXCEPT !.table.nelems = n, !.table.buckets = <<>>]

\* the element counts the loaded table is observed at: a few elements, or
\* within LoadWindow of the ceiling threshold
LoadCounts(h) ==
  (0..LoadWindow) \cup
  ((h.rehashCeilThreshold - LoadWindow)..h.rehashCeilThreshold)

\* the counts the calls are followed to beyond the threshold
LoadOver(h) == h.rehashCeilThreshold..(h.rehashCeilThreshold + LoadWindow)

InitLoad ==
  /\ \E capacity \in LoadCaps :
       \E h \in {CHashTable_setMaxRehashes(CHashTable_new(capacity), 0)} :
         \E n \in LoadCounts(h) : hTable = Loaded(h, n)
  /\ heap = <<>>
  /\ dcalls = [o \in Objects |-> 0]
  /\ refs = [k \in Keys |-> 0]
  /\ stored = [k \in Keys |-> NULL]
  /\ dupAttempt = FALSE
  /\ last = [op |-> "new", key |-> 0, ret |-> 0, pre |-> 0]
  /\ locks = NoLocks
  /\ thread = NoThreads

\* CHashTable_insert of an absent key, no migration in progress
LoadInsert ==
  \E r \in {checkRehashThresholds([hTable EXCEPT !.table.nelems = @ + 1], FALSE)} :
    /\ hTable.table.nelems + 1 \in LoadCounts(hTable) \cup LoadOver(hTable)
    /\ hTable' = r.h
    /\ last' = [op |-> "insert", key |-> 0, ret |-> r.ret, pre |-> NULL]
    /\ UNCHANGED <<heap, dcalls, stored, refs, dupAttempt, locks, thread>>

\* CHashTable_remove of a present key, no migration in progress
LoadRemove ==
  \E r \in {checkRehashThresholds([hTable EXCEPT !.table.nelems = @ - 1], FALSE)} :
    /\ hTable.table.nelems > 0
    /\ hTable.table.nelems - 1 \in LoadCounts(hTable) \cup LoadOver(hTable)
    /\ hTable' = r.h
    /\ last' = [op |-> "remove", key |-> 0, ret |-> r.ret, pre |-> NULL]
    /\ UNCHANGED <<heap, dcalls, stored, refs, dupAttempt, locks, thread>>

LoadSetMaxRehashes ==
  \E rehashes \in LoadRehashes :
    /\ hTable' = CHashTable_setMaxRehashes(hTable, rehashes)
    /\ last' = [op |-> "setMaxRehashes", key |-> 0, ret |-> rehashes, pre |-> NULL]
    /\ UNCHANGED <<heap, dcalls, stored, refs, dupAttempt, locks, thread>>

NextLoad ==
  \/ LoadInsert
  \/ LoadRemove
  \/ LoadSetMaxRehashes

SpecLoad == InitLoad /\ [][NextLoad]_vars

(***************************************************************************)
(* The reference counter.  A memory m is the heap of records (struct       *)
(* record: a struct refcounter and the mark) with the number of times the  *)
(* destructor was invoked on each object.                                  *)
(***************************************************************************)
\* a record after free(): its fields are gone, count keeps the value it had
FreedRecord(count) ==
  [obj |-> NULL, obj_free |-> NULL, count |-> count,
   marked_for_removal |-> FALSE, freed |-> TRUE]

\* count is an unsigned int: a value of 2^31 or more is written as the
\* integer of the same 32 bits (UINT_MAX is -1), and ++ and -- wrap around
INT_MAX == 2147483647
INT_MIN == 0 - INT_MAX - 1
UIntInc(c) == IF c = UINT_MAX THEN 0 ELSE IF c = INT_MAX THEN INT_MIN ELSE c + 1
UIntDec(c) == IF c = 0 THEN UINT_MAX ELSE IF c = INT_MIN THEN INT_MAX ELSE c - 1

RC_ini(obj, obj_free) ==
  [obj |-> obj, obj_free |-> obj_free, count |-> 1,
   marked_for_removal |-> FALSE, freed |-> FALSE]

RC_freeObj_resetsCount(m, r) ==
  [heap |-> [m.heap EXCEPT ![r].obj = NULL, ![r].count = 0],
   dcalls |-> IF m.heap[r].obj_free # NULL
              THEN [m.dcalls EXCEPT ![m.heap[r].obj] = @ + 1]
              ELSE m.dcalls]

RC_freeObj(m, r) ==
  [heap |-> [m.heap EXCEPT ![r].obj = NULL],
   dcalls |-> IF m.heap[r].obj_free # NULL
              THEN [m.dcalls EXCEPT ![m.heap[r].obj] = @ + 1]
              ELSE m.dcalls]

RC_refinc(m, r) ==
  IF m.heap[r].count = 0 THEN [m |-> m, ret |-> 0 - 1]
  ELSE [m |-> [m EXCEPT !.heap[r].count = UIntInc(@)], ret |-> 0]

RC_refdec_underflow(m, r) ==
  LET m1 == [m EXCEPT !.heap[r].count = UIntDec(@)]
  IN IF m1.heap[r].count = 0 THEN [m |-> RC_freeObj(m1, r), ret |-> 0]
     ELSE [m |-> m1, ret |-> 1]

RC_refdec(m, r) ==
  IF m.heap[r].count = 0 THEN [m |-> m, ret |-> 0]
  ELSE LET m1 == [m EXCEPT !.heap[r].count = UIntDec(@)]
       IN IF m1.heap[r].count = 0 THEN [m |-> RC_freeObj(m1, r), ret |-> 0]
          ELSE [m |-> m1, ret |-> 1]

RC_getObj(m, r) == m.heap[r].obj

RC_getCount(m, r) == m.heap[r].count

RC_setObjFree(m, r, obj_free) == [m EXCEPT !.heap[r].obj_free = obj_free]

RC_free(m, r) ==
  LET m1 == RC_freeObj(m, r)
  IN [m1 EXCEPT !.heap[r] = FreedRecord(m.heap[r].count)]

\* a record of the synchronized map is a counter, the mark and a mutex; the
\* mutex of record r is locks.E[r], and a destroyed mutex is the mutex of a
\* freed record
record_new(obj, obj_free) == RC_ini(obj, obj_free)

record_free(m, r) == RC_free(m, r)

\* freeBucket applies the table's value destructor to the value of the bucket
freeBucket(m, vfree, value) ==
  IF vfree = RC_FREE THEN RC_free(m, value)
  ELSE IF vfree = RECORD_FREE THEN record_free(m, value)
  ELSE m

(***************************************************************************)
(* The reference counting hash table (single-threaded).                    *)
(***************************************************************************)
RCHashTable_new(inicap) == CHashTable_setValueFree(CHashTable_new(inicap), RC_FREE)

RCHashTable_insert(h, m, key, hash, value, f, recOK, bucketOK, tableOK) ==
  IF ~recOK THEN [h |-> h, m |-> m, ret |-> 1]
  ELSE LET r == Len(m.heap) + 1
           m1 == [m EXCEPT !.heap = Append(@, RC_ini(value, f))]
           ins == CHashTable_insert(h, key, hash, r, bucketOK, tableOK)
       IN IF ins.ret < 0
          THEN [h |-> ins.h, m |-> [m1 EXCEPT !.heap[r] = FreedRecord(1)],
                ret |-> ins.ret]
          ELSE [h |-> ins.h, m |-> m1, ret |-> ins.ret]

RCHashTable_remove(h, m, key, hash, tableOK) ==
  LET lk == CHashTable_lookup(h, key, hash)
      r == lk.val
  IN IF r = NULL THEN [h |-> lk.h, m |-> m, ret |-> NULL]
     ELSE LET value == RC_getObj(m, r)
              m1 == RC_setObjFree(m, r, NULL)
              rm == CHashTable_remove(lk.h, key, hash, tableOK)
              m2 == IF rm.found THEN freeBucket(m1, lk.h.vfree, rm.victim) ELSE m1
          IN [h |-> rm.h, m |-> m2, ret |-> IF rm.ret < 0 THEN NULL ELSE value]

RCHashTable_delete(h, m, key, hash, tableOK) ==
  LET lk == CHashTable_lookup(h, key, hash)
      r == lk.val
  IN IF r = NULL THEN [h |-> lk.h, m |-> m, ret |-> 0 - 1]
     ELSE LET dec == RC_refdec(m, r)
          IN IF dec.ret = 0 THEN
               LET rm == CHashTable_remove(lk.h, key, hash, tableOK)
               IN [h |-> rm.h,
                   m |-> IF rm.found THEN freeBucket(dec.m, lk.h.vfree, rm.victim)
                         ELSE dec.m,
                   ret |-> rm.ret]
             ELSE [h |-> lk.h,
                   m |-> [dec.m EXCEPT !.heap[r].marked_for_removal = TRUE],
                   ret |-> dec.ret]

RCHashTable_refinc(h, m, key, hash) ==
  LET lk == CHashTable_lookup(h, key, hash)
      r == lk.val
  IN IF r # NULL /\ m.heap[r].marked_for_removal = FALSE
     THEN LET inc == RC_refinc(m, r)
          IN [h |-> lk.h, m |-> inc.m, ret |-> RC_getObj(inc.m, r)]
     ELSE [h |-> lk.h, m |-> m, ret |-> NULL]

RCHashTable_refdec(h, m, key, hash, tableOK) ==
  LET lk == CHashTable_lookup(h, key, hash)
      r == lk.val
  IN IF r = NULL THEN [h |-> lk.h, m |-> m, ret |-> 0 - 1]
     ELSE LET dec == RC_refdec(m, r)
          IN IF dec.ret = 0 THEN
               LET rm == CHashTable_remove(lk.h, key, hash, tableOK)
               IN [h |-> rm.h,
                   m |-> IF rm.found THEN freeBucket(dec.m, lk.h.vfree, rm.victim)
                         ELSE dec.m,
                   ret |-> rm.ret]
             ELSE [h |-> lk.h, m |-> dec.m, ret |-> dec.ret]

(***************************************************************************)
(* The reference counting hash table in use: one action per public         *)
(* function.  refs[k] is the count the calls on key k add up to: 1 at an   *)
(* insert that linked a record, +1 and -1 at the calls that returned        *)
(* success; last.pre is the record the call's lookup found.                 *)
(***************************************************************************)
Mem == [heap |-> heap, dcalls |-> dcalls]

\* the keys the map is used with, the destructors passed to insert, and the
\* allocation an insert finds failing (at most one is reached in a call)
RCKeys == 1..NKeysRC
\* capacities and set-ups the map is constructed with
RCIniCaps == {1}
RCConfigs == {0, 1}
Destructors == {FREE}
AllocFailures == {"none", "record", "bucket", "table"}

\* the record a lookup of the key finds (NULL if none)
Entry(h, k) == LookupValue(h, k, HashOf(k))

\* the record is the value of a bucket of the table
InTable(h, r) ==
  \/ \E p \in TableBuckets(h.table) : h.table.buckets[p[1]][p[2]].value = r
  \/ \E p \in TableBuckets(h.secondTable) :
        h.secondTable.buckets[p[1]][p[2]].value = r

\* the records chained under the key
RecordsOf(h, k) ==
  {h.table.buckets[p[1]][p[2]].value :
     p \in {q \in TableBuckets(h.table) : h.table.buckets[q[1]][q[2]].key = k}}
  \cup
  {h.secondTable.buckets[p[1]][p[2]].value :
     p \in {q \in TableBuckets(h.secondTable) :
              h.secondTable.buckets[q[1]][q[2]].key = k}}

\* the records the table holds under every key
Stored(h) == [k \in Keys |-> RecordsOf(h, k)]

ConfiguredRC(inicap, cfg) ==
  IF cfg = 0 THEN RCHashTable_new(inicap)
  ELSE CHashTable_setMaxRehashes(
         CHashTable_setMinLoadFactor(
           CHashTable_setMaxLoadFactor(RCHashTable_new(inicap), DEFAULT_MAX_LOAD_FACTOR),
           50),
         cfg)

InitRC ==
  /\ \E inicap \in RCIniCaps, cfg \in RCConfigs : hTable = ConfiguredRC(inicap, cfg)
  /\ heap = <<>>
  /\ dcalls = [o \in Objects |-> 0]
  /\ stored = [k \in Keys |-> NULL]
  /\ refs = [k \in Keys |-> 0]
  /\ dupAttempt = FALSE
  /\ last = [op |-> "new", key |-> 0, ret |-> 0, pre |-> 0]
  /\ locks = NoLocks
  /\ thread = NoThreads

RCInsert ==
  \E k \in RCKeys, f \in Destructors, fail \in AllocFailures :
    \E r \in {RCHashTable_insert(hTable, Mem, k, HashOf(k), ObjOf(Len(heap) + 1), f,
                                fail # "record", fail # "bucket", fail # "table")} :
       /\ Len(heap) < MaxRecs
       /\ hTable' = r.h
       /\ heap' = r.m.heap
       /\ dcalls' = r.m.dcalls
       /\ refs' = IF r.ret >= 0 /\ fail # "record" THEN [refs EXCEPT ![k] = 1] ELSE refs
       /\ dupAttempt' = (dupAttempt \/ Entry(hTable, k) # NULL)
       /\ last' = [op |-> "insert", key |-> k, ret |-> r.ret, pre |-> Entry(hTable, k)]
       /\ UNCHANGED <<stored, locks, thread>>

RCRemove ==
  \E k \in RCKeys, tableOK \in BOOLEAN :
    \E r \in {RCHashTable_remove(hTable, Mem, k, HashOf(k), tableOK)} :
       /\ hTable' = r.h
       /\ heap' = r.m.heap
       /\ dcalls' = r.m.dcalls
       /\ last' = [op |-> "remove", key |-> k, ret |-> r.ret, pre |-> Entry(hTable, k)]
       /\ UNCHANGED <<stored, refs, dupAttempt, locks, thread>>

RCDelete ==
  \E k \in RCKeys, tableOK \in BOOLEAN :
    \E r \in {RCHashTable_delete(hTable, Mem, k, HashOf(k), tableOK)} :
       /\ hTable' = r.h
       /\ heap' = r.m.heap
       /\ dcalls' = r.m.dcalls
       /\ refs' = IF r.ret >= 0 THEN [refs EXCEPT ![k] = @ - 1] ELSE refs
       /\ last' = [op |-> "delete", key |-> k, ret |-> r.ret, pre |-> Entry(hTable, k)]
       /\ UNCHANGED <<stored, dupAttempt, locks, thread>>

RCRefinc ==
  \E k \in RCKeys :
    \E r \in {RCHashTable_refinc(hTable, Mem, k, HashOf(k))} :
       /\ Entry(hTable, k) # NULL => heap[Entry(hTable, k)].count < MaxCount
       /\ hTable' = r.h
       /\ heap' = r.m.heap
       /\ dcalls' = r.m.dcalls
       /\ refs' = IF r.ret # NULL THEN [refs EXCEPT ![k] = @ + 1] ELSE refs
       /\ last' = [op |-> "refinc", key |-> k, ret |-> r.ret, pre |-> Entry(hTable, k)]
       /\ UNCHANGED <<stored, dupAttempt, locks, thread>>

RCRefdec ==
  \E k \in RCKeys, tableOK \in BOOLEAN :
    \E r \in {RCHashTable_refdec(hTable, Mem, k, HashOf(k), tableOK)} :
       /\ hTable' = r.h
       /\ heap' = r.m.heap
       /\ dcalls' = r.m.dcalls
       /\ refs' = IF r.ret >= 0 THEN [refs EXCEPT ![k] = @ - 1] ELSE refs
       /\ last' = [op |-> "refdec", key |-> k, ret |-> r.ret, pre |-> Entry(hTable, k)]
       /\ UNCHANGED <<stored, dupAttempt, locks, thread>>

NextRC ==
  \/ RCInsert
  \/ RCRemove
  \/ RCDelete
  \/ RCRefinc
  \/ RCRefdec

SpecRC == InitRC /\ [][NextRC]_vars

(***************************************************************************)
(* The synchronized map used by several threads.  locks.M is the thread    *)
(* that holds the mutex of the map (0 if none) and locks.E[r] the thread  *)
(* that holds the mutex of record r.  thread[t] is the frame of the call   *)
(* thread t is in: a call is cut where it acquires a mutex, so pc is       *)
(* "lockE" before pthread_mutex_lock(&r->mutex), "work" with the mutex of  *)
(* the record held and the mutex of the map released, and "relock" before  *)
(* the second pthread_mutex_lock(&rcht->mutex).  What a thread does with   *)
(* a record that was freed is undefined: it stops ("crashed") or goes on   *)
(* with the bytes the record was left with.                                *)
(***************************************************************************)
Threads == 1..NThreads
SyncKeys == 1..NKeysSync
\* the keys the calls are made with: the threads of a concurrent program
\* contend for the keys of SyncKeys, a program of one thread uses RCKeys
CallKeys == IF DOMAIN thread = Threads THEN SyncKeys ELSE RCKeys
SyncIniCaps == {1}
SyncKeyFrees == {NULL}
SyncOps == {"remove", "delete", "refinc", "refdec"}

IdleFrame == [pc |-> "idle", op |-> "none", key |-> 0, r |-> NULL, value |-> NULL]

RCHashTable_sync_new(inicap, key_free) ==
  CHashTable_setValueFree(CHashTable_setKeyFree(CHashTable_new(inicap), key_free),
                          RECORD_FREE)

\* the part of a call between pthread_mutex_lock(&r->mutex) and the unlock
\* of the same mutex; relock tells that the call goes on to remove the key
RCHashTable_sync_entry(m, op, r) ==
  IF op = "refinc" THEN
    IF m.heap[r].marked_for_removal = FALSE
    THEN LET inc == RC_refinc(m, r)
         IN [m |-> inc.m, ret |-> RC_getObj(inc.m, r), relock |-> FALSE]
    ELSE [m |-> m, ret |-> NULL, relock |-> FALSE]
  ELSE IF op = "refdec" THEN
    LET dec == RC_refdec(m, r)
    IN [m |-> dec.m, ret |-> dec.ret, relock |-> dec.ret = 0]
  ELSE IF op = "delete" THEN
    LET dec == RC_refdec(m, r)
    IN IF dec.ret = 0 THEN [m |-> dec.m, ret |-> dec.ret, relock |-> TRUE]
       ELSE [m |-> [dec.m EXCEPT !.heap[r].marked_for_removal = TRUE],
             ret |-> dec.ret, relock |-> FALSE]
  ELSE [m |-> RC_setObjFree(m, r, NULL), ret |-> RC_getObj(m, r), relock |-> TRUE]

\* the same call on the unsynchronized map in the same state, for either
\* outcome of the allocation of a secondary table: what a program of one
\* thread compares the call it is in with (kept in stored during the call)
AsRCHashTable(h) == [h EXCEPT !.vfree = RC_FREE]

RCHashTable_call(op, h, m, key, hash, tableOK) ==
  IF op = "remove" THEN RCHashTable_remove(h, m, key, hash, tableOK)
  ELSE IF op = "delete" THEN RCHashTable_delete(h, m, key, hash, tableOK)
  ELSE IF op = "refdec" THEN RCHashTable_refdec(h, m, key, hash, tableOK)
  ELSE RCHashTable_refinc(h, m, key, hash)

Unsynchronized(op, k) ==
  [tableOK \in BOOLEAN |->
     RCHashTable_call(op, AsRCHashTable(hTable), Mem, k, HashOf(k), tableOK)]

\* the value absent keys are answered with
SyncAbsent(op) == IF op \in {"remove", "refinc"} THEN NULL ELSE 0 - 1

InitSync ==
  /\ \E inicap \in SyncIniCaps, key_free \in SyncKeyFrees :
        hTable = RCHashTable_sync_new(inicap, key_free)
  /\ heap = <<>>
  /\ dcalls = [o \in Objects |-> 0]
  /\ stored = [k \in Keys |-> NULL]
  /\ refs = [k \in Keys |-> 0]
  /\ dupAttempt = FALSE
  /\ last = [op |-> "new", key |-> 0, ret |-> 0, pre |-> 0]
  /\ locks = [M |-> 0, E |-> <<>>]
  /\ thread = [t \in Threads |-> IdleFrame]

\* RCHashTable_insert_sync: the record is private to the caller until the
\* table links it, and everything the call does to the table is done with
\* the mutex of the map held
SyncInsert(t) ==
  \E k \in CallKeys, f \in Destructors, fail \in AllocFailures :
    /\ t \in DOMAIN thread
    /\ thread[t].pc = "idle"
    /\ Len(heap) < MaxRecs
    /\ IF fail = "record"
       THEN /\ last' = [op |-> "insert", key |-> k, ret |-> 1, pre |-> NULL]
            /\ UNCHANGED <<hTable, heap, dcalls, dupAttempt, locks>>
       ELSE \E r \in {Len(heap) + 1} :
            \E ins \in {CHashTable_insert(hTable, k, HashOf(k), r,
                                          fail # "bucket", fail # "table")} :
            \E m1 \in {[heap |-> Append(heap, record_new(ObjOf(r), f)),
                        dcalls |-> dcalls]} :
            \E m2 \in {IF ins.ret < 0 THEN record_free(m1, r) ELSE m1} :
              /\ locks.M = 0
              /\ hTable' = ins.h
              /\ heap' = m2.heap
              /\ dcalls' = m2.dcalls
              /\ locks' = [locks EXCEPT !.E = Append(@, 0)]
              /\ dupAttempt' = (dupAttempt \/ Entry(hTable, k) # NULL)
              /\ last' = [op |-> "insert", key |-> k, ret |-> ins.ret,
                          pre |-> Entry(hTable, k)]
    /\ UNCHANGED <<stored, refs, thread>>

\* the first pthread_mutex_lock(&rcht->mutex) and the lookup of the other
\* four calls; on an absent key refinc and delete unlock and return, remove
\* and refdec return with the mutex of the map still locked
SyncBegin(t) ==
  \E op \in SyncOps, k \in CallKeys :
    \E lk \in {CHashTable_lookup(hTable, k, HashOf(k))} :
      /\ t \in DOMAIN thread
      /\ thread[t].pc = "idle"
      /\ locks.M = 0
      /\ (op = "refinc" /\ lk.val # NULL) => heap[lk.val].count < MaxCount
      /\ hTable' = lk.h
      /\ IF lk.val # NULL
         THEN /\ thread' = [thread EXCEPT ![t] =
                              [pc |-> "lockE", op |-> op, key |-> k,
                               r |-> lk.val, value |-> NULL]]
              /\ locks' = [locks EXCEPT !.M = t]
              /\ stored' = IF DOMAIN thread = Threads THEN stored
                            ELSE Unsynchronized(op, k)
              /\ UNCHANGED last
         ELSE /\ locks' = IF op \in {"refinc", "delete"} THEN locks
                          ELSE [locks EXCEPT !.M = t]
              /\ last' = [op |-> op, key |-> k, ret |-> SyncAbsent(op), pre |-> NULL]
              /\ UNCHANGED <<thread, stored>>
      /\ UNCHANGED <<heap, dcalls, refs, dupAttempt>>

\* pthread_mutex_lock(&r->mutex); pthread_mutex_unlock(&rcht->mutex)
SyncLockEntry(t) ==
  /\ t \in DOMAIN thread
  /\ thread[t].pc = "lockE"
  /\ locks.E[thread[t].r] = 0
  /\ locks' = [locks EXCEPT !.E[thread[t].r] = t, !.M = 0]
  /\ thread' = [thread EXCEPT ![t].pc = "work"]
  /\ UNCHANGED <<hTable, heap, dcalls, stored, refs, dupAttempt, last>>

\* SyncWork going on to the second lock of the map with the record still locked
SyncWork_entryHeld(t) ==
  /\ t \in DOMAIN thread
  /\ thread[t].pc = "work"
  /\ \/ /\ heap[thread[t].r].freed
        /\ thread' = [thread EXCEPT ![t].pc = "crashed"]
        /\ UNCHANGED <<heap, dcalls, locks, last>>
     \/ \E w \in {RCHashTable_sync_entry(Mem, thread[t].op, thread[t].r)} :
          /\ heap' = w.m.heap
          /\ dcalls' = w.m.dcalls
          /\ IF w.relock
             THEN /\ thread' = [thread EXCEPT ![t].pc = "relock", ![t].value = w.ret]
                  /\ UNCHANGED <<last, locks>>
             ELSE /\ thread' = [thread EXCEPT ![t] = IdleFrame]
                  /\ locks' = [locks EXCEPT !.E[thread[t].r] = 0]
                  /\ last' = [op |-> thread[t].op, key |-> thread[t].key,
                              ret |-> w.ret, pre |-> thread[t].r]
  /\ UNCHANGED <<hTable, stored, refs, dupAttempt>>

\* the work on the record and pthread_mutex_unlock(&r->mutex)
SyncWork(t) ==
  /\ t \in DOMAIN thread
  /\ thread[t].pc = "work"
  /\ \/ /\ heap[thread[t].r].freed
        /\ thread' = [thread EXCEPT ![t].pc = "crashed"]
        /\ UNCHANGED <<heap, dcalls, locks, last>>
     \/ \E w \in {RCHashTable_sync_entry(Mem, thread[t].op, thread[t].r)} :
          /\ heap' = w.m.heap
          /\ dcalls' = w.m.dcalls
          /\ locks' = [locks EXCEPT !.E[thread[t].r] = 0]
          /\ IF w.relock
             THEN /\ thread' = [thread EXCEPT ![t].pc = "relock", ![t].value = w.ret]
                  /\ UNCHANGED last
             ELSE /\ thread' = [thread EXCEPT ![t] = IdleFrame]
                  /\ last' = [op |-> thread[t].op, key |-> thread[t].key,
                              ret |-> w.ret, pre |-> thread[t].r]
  /\ UNCHANGED <<hTable, stored, refs, dupAttempt>>

\* SyncFinish removing the key without waiting for the mutex of the map
SyncFinish_unlocked(t) ==
  \E tableOK \in BOOLEAN :
    /\ t \in DOMAIN thread
    /\ thread[t].pc = "relock"
    /\ \E rm \in {CHashTable_remove(hTable, thread[t].key, HashOf(thread[t].key), tableOK)} :
      /\ hTable' = rm.h
      /\ \E m2 \in {IF rm.found THEN freeBucket(Mem, hTable.vfree, rm.victim) ELSE Mem} :
           /\ heap' = m2.heap
           /\ dcalls' = m2.dcalls
      /\ thread' = [thread EXCEPT ![t] = IdleFrame]
      /\ last' = [op |-> thread[t].op, key |-> thread[t].key,
                  ret |-> IF thread[t].op = "remove"
                          THEN (IF rm.ret # OK THEN NULL ELSE thread[t].value)
                          ELSE rm.ret,
                  pre |-> thread[t].r]
      /\ UNCHANGED <<stored, refs, dupAttempt, locks>>

\* the second pthread_mutex_lock(&rcht->mutex), CHashTable_remove, which
\* applies record_free to the record it unlinks, and the unlock
SyncFinish(t) ==
  \E tableOK \in BOOLEAN :
    /\ t \in DOMAIN thread
    /\ thread[t].pc = "relock"
    /\ \E rm \in {CHashTable_remove(hTable, thread[t].key, HashOf(thread[t].key), tableOK)} :
      /\ locks.M = 0
      /\ hTable' = rm.h
      /\ \E m2 \in {IF rm.found THEN freeBucket(Mem, hTable.vfree, rm.victim) ELSE Mem} :
           /\ heap' = m2.heap
           /\ dcalls' = m2.dcalls
      /\ thread' = [thread EXCEPT ![t] = IdleFrame]
      /\ last' = [op |-> thread[t].op, key |-> thread[t].key,
                  ret |-> IF thread[t].op = "remove"
                          THEN (IF rm.ret # OK THEN NULL ELSE thread[t].value)
                          ELSE rm.ret,
                  pre |-> thread[t].r]
      /\ UNCHANGED <<stored, refs, dupAttempt, locks>>

NextSync ==
  \E t \in Threads :
    \/ SyncInsert(t)
    \/ SyncBegin(t)
    \/ SyncLockEntry(t)
    \/ SyncWork(t)
    \/ SyncFinish(t)

SpecSync == InitSync /\ [][NextSync]_vars

\* the synchronized map used by one thread, constructed like the maps of
\* ConfiguredRC: the setters of the synchronized map call those of the table
RCHashTable_sync_setMaxLoadFactor(h, percentage) ==
  CHashTable_setMaxLoadFactor(h, percentage)

RCHashTable_sync_setMinLoadFactor(h, percentage) ==
  CHashTable_setMinLoadFactor(h, percentage)

RCHashTable_sync_setMaxRehashes(h, maxrehashes) ==
  CHashTable_setMaxRehashes(h, maxrehashes)

ConfiguredSync(inicap, key_free, cfg) ==
  IF cfg = 0 THEN RCHashTable_sync_new(inicap, key_free)
  ELSE RCHashTable_sync_setMaxRehashes(
         RCHashTable_sync_setMinLoadFactor(
           RCHashTable_sync_setMaxLoadFactor(RCHashTable_sync_new(inicap, key_free),
                                             DEFAULT_MAX_LOAD_FACTOR),
           50),
         cfg)

InitSyncSeq ==
  /\ \E inicap \in RCIniCaps, key_free \in SyncKeyFrees, cfg \in RCConfigs :
        hTable = ConfiguredSync(inicap, key_free, cfg)
  /\ heap = <<>>
  /\ dcalls = [o \in Objects |-> 0]
  /\ stored = [k \in Keys |-> NULL]
  /\ refs = [k \in Keys |-> 0]
  /\ dupAttempt = FALSE
  /\ last = [op |-> "new", key |-> 0, ret |-> 0, pre |-> 0]
  /\ locks = [M |-> 0, E |-> <<>>]
  /\ thread = [t \in {1} |-> IdleFrame]

SpecSyncSeq == InitSyncSeq /\ [][NextSync]_vars

(***************************************************************************)
(* One reference counter in use: one action per function of                *)
(* ReferenceCounter.c that changes the cell.  The cell is heap[1].  refs   *)
(* is the ledger of the cell: the references outstanding since RC_ini,     *)
(* wraps * 2^32 + lo with lo written like count, and plain tells that the  *)
(* cell holds an object and a destructor and only RC_refinc and RC_refdec  *)
(* were called on it since.                                                *)
(***************************************************************************)
CellObjects == {NULL, ObjOf(1), ObjOf(2)}
CellDestructors == {NULL, FREE}
\* the numbers of RC_refinc calls the cell has seen when the run starts
CellAcquired == {0, UINT_MAX - 2}

Ledger(lo, plain) == [wraps |-> 0, lo |-> lo, plain |-> plain]
LedgerInc(g) ==
  IF g.lo = UINT_MAX THEN [g EXCEPT !.wraps = @ + 1, !.lo = 0]
  ELSE [g EXCEPT !.lo = UIntInc(@)]
LedgerDec(g) ==
  IF g.lo = 0 THEN [g EXCEPT !.wraps = @ - 1, !.lo = UINT_MAX]
  ELSE [g EXCEPT !.lo = UIntDec(@)]
\* more than one reference is outstanding / exactly one is
LedgerMany(g) == g.wraps > 0 \/ g.lo \notin {0, 1}
LedgerOne(g) == g.wraps = 0 /\ g.lo = 1

\* no destructor call is counted beyond the bound
CellBounded == \A o \in Objects : dcalls[o] < MaxDestroys

InitCell ==
  /\ \E obj \in CellObjects, f \in CellDestructors, n \in CellAcquired :
       /\ heap = <<[RC_ini(obj, f) EXCEPT !.count = 1 + n]>>
       /\ refs = Ledger(1 + n, obj # NULL /\ f # NULL)
  /\ dcalls = [o \in Objects |-> 0]
  /\ hTable = CHashTable_new(0)
  /\ stored = [k \in Keys |-> NULL]
  /\ dupAttempt = FALSE
  /\ last = [op |-> "new", key |-> 0, ret |-> 0, pre |-> 0]
  /\ locks = NoLocks
  /\ thread = NoThreads

CellIni ==
  \E obj \in CellObjects, f \in CellDestructors :
    /\ CellBounded
    /\ heap' = <<RC_ini(obj, f)>>
    /\ refs' = Ledger(1, obj # NULL /\ f # NULL)
    /\ last' = [op |-> "RC_ini", key |-> 0, ret |-> 0, pre |-> heap[1].count]
    /\ UNCHANGED <<hTable, dcalls, stored, dupAttempt, locks, thread>>

CellRefinc ==
  \E r \in {RC_refinc(Mem, 1)} :
    /\ CellBounded
    /\ heap[1].count # MaxCount
    /\ heap' = r.m.heap
    /\ dcalls' = r.m.dcalls
    /\ refs' = IF r.ret = 0 THEN LedgerInc(refs) ELSE refs
    /\ last' = [op |-> "RC_refinc", key |-> 0, ret |-> r.ret, pre |-> heap[1].count]
    /\ UNCHANGED <<hTable, stored, dupAttempt, locks, thread>>

CellRefdec ==
  \E r \in {RC_refdec(Mem, 1)} :
    /\ CellBounded
    /\ heap[1].count # UINT_MAX - 1
    /\ heap' = r.m.heap
    /\ dcalls' = r.m.dcalls
    /\ refs' = IF heap[1].count # 0 THEN LedgerDec(refs) ELSE refs
    /\ last' = [op |-> "RC_refdec", key |-> 0, ret |-> r.ret, pre |-> heap[1].count]
    /\ UNCHANGED <<hTable, stored, dupAttempt, locks, thread>>

CellFreeObj ==
  \E m \in {RC_freeObj(Mem, 1)} :
    /\ CellBounded
    /\ heap' = m.heap
    /\ dcalls' = m.dcalls
    /\ refs' = [refs EXCEPT !.plain = FALSE]
    /\ last' = [op |-> "RC_freeObj", key |-> 0, ret |-> 0, pre |-> heap[1].count]
    /\ UNCHANGED <<hTable, stored, dupAttempt, locks, thread>>

CellSetObjFree ==
  \E f \in CellDestructors :
    \E m \in {RC_setObjFree(Mem, 1, f)} :
      /\ CellBounded
      /\ heap' = m.heap
      /\ dcalls' = m.dcalls
      /\ refs' = [refs EXCEPT !.plain = FALSE]
      /\ last' = [op |-> "RC_setObjFree", key |-> 0, ret |-> 0, pre |-> heap[1].count]
      /\ UNCHANGED <<hTable, stored, dupAttempt, locks, thread>>

NextCell ==
  \/ CellIni
  \/ CellRefinc
  \/ CellRefdec
  \/ CellFreeObj
  \/ CellSetObjFree

SpecCell == InitCell /\ [][NextCell]_vars

(***************************************************************************)
(* Claims about the chained hash table (checked under SpecHT).             *)
(***************************************************************************)

\* C1 (rehash neutrality): as long as no insert was called with a key that was
\* present, a lookup of every key finds the value stored by the last insert of
\* the key if it was not removed since and NULL otherwise, in every state of a
\* grow or shrink migration, and CHashTable_lookup returned exactly that.
C1_RehashNeutrality ==
  ~dupAttempt =>
    /\ Contents(hTable) = stored
    /\ last.op = "lookup" => last.ret = stored[last.key]

\* a lookup has found a stored key in the secondary table of a shrink migration
\* that is still in progress, after another key was removed
C1_Witness ==
  /\ ~dupAttempt
  /\ Migrating
  /\ hTable.secondTable.capacity < hTable.table.capacity
  /\ last.op = "lookup"
  /\ last.ret # NULL
  /\ last.ret = stored[last.key]
  /\ lookup_private(hTable.secondTable, last.key, HashOf(last.key)).pos # 0
  /\ \E k \in Keys : stored[k] = NULL

\* C2 (duplicate insert): CHashTable_insert of a key that is present returns a
\* negative code and leaves the key stored once, with the value it had.
C2_DuplicateInsertRejected ==
  (last.op = "insert" /\ last.pre # NULL) =>
    /\ last.ret < 0
    /\ Copies(hTable, last.key) = 1
    /\ LookupValue(hTable, last.key, HashOf(last.key)) = last.pre

\* C3 (remove of an absent key): CHashTable_remove of a key that is not stored
\* returns a negative code, and it returns 0 or more only for a key that was
\* stored; the stored keys are those it did not remove.
C3_RemoveAbsentNegative ==
  last.op = "remove" =>
    /\ last.pre = NULL => last.ret < 0
    /\ last.ret >= 0 => last.pre # NULL
    /\ ~dupAttempt => Contents(hTable) = stored

(***************************************************************************)
(* Claims about the reference counting hash table (checked under SpecRC).  *)
(***************************************************************************)

\* C4 (refinc): RCHashTable_refinc returns NULL and changes neither the records,
\* the destructor calls nor the stored entries when the key is absent or its
\* entry is marked for removal; otherwise it raises the count of the entry by
\* exactly 1 and returns the object that was inserted with the entry.
C4_Refinc ==
  [][last'.op = "refinc" =>
       LET e == Entry(hTable, last'.key)
       IN IF e = NULL \/ heap[e].marked_for_removal
          THEN /\ last'.ret = NULL
               /\ heap' = heap
               /\ dcalls' = dcalls
               /\ Stored(hTable') = Stored(hTable)
          ELSE /\ heap'[e].count = heap[e].count + 1
               /\ last'.ret = ObjOf(e)]_vars

\* C5 (seal monotonicity): the mark of an entry that stays in the table never
\* reverts to false, and while a marked entry of key K is in the table every
\* RCHashTable_refinc(K) returns NULL and changes no count.
C5_SealMonotonic ==
  [][/\ \A r \in 1..Len(heap) :
          (heap[r].marked_for_removal /\ InTable(hTable', r))
            => heap'[r].marked_for_removal
     /\ (/\ last'.op = "refinc"
         /\ \E r \in RecordsOf(hTable, last'.key) : heap[r].marked_for_removal)
          => (last'.ret = NULL /\ heap' = heap)]_vars

\* C6 (count conservation): for every key present in the map, the count of its
\* entry is 1 plus the successful refinc calls minus the successful refdec and
\* delete calls on the key since its last insertion.
C6_CountConservation ==
  \A k \in RCKeys :
    Entry(hTable, k) # NULL => heap[Entry(hTable, k)].count = refs[k]

\* C7 (destructor exactly once): the object of every entry that was freed on
\* leaving the map with count zero has had its destructor invoked exactly
\* once, and no object has had it invoked twice.
C7_DestructorExactlyOnce ==
  \A r \in 1..Len(heap) :
    /\ dcalls[ObjOf(r)] <= 1
    /\ (heap[r].freed /\ heap[r].count = 0) => dcalls[ObjOf(r)] = 1

\* C8 (detach without destroy): RCHashTable_remove of a present key returns the
\* object stored with its entry, takes the entry out of the table and does not
\* invoke the destructor on the object; afterwards refinc of the key returns
\* NULL and refdec a negative code.  On an absent key it returns NULL and
\* changes nothing.
C8_RemoveDetaches ==
  [][last'.op = "remove" =>
       LET k == last'.key
           e == Entry(hTable, k)
           after == [heap |-> heap', dcalls |-> dcalls']
       IN IF e = NULL
          THEN /\ last'.ret = NULL
               /\ heap' = heap
               /\ dcalls' = dcalls
               /\ Stored(hTable') = Stored(hTable)
          ELSE /\ last'.ret = ObjOf(e)
               /\ ~InTable(hTable', e)
               /\ dcalls'[ObjOf(e)] = dcalls[ObjOf(e)]
               /\ RCHashTable_refinc(hTable', after, k, HashOf(k)).ret = NULL
               /\ RCHashTable_refdec(hTable', after, k, HashOf(k), TRUE).ret < 0]_vars

\* C9 (refdec): RCHashTable_refdec returns a negative code and changes nothing
\* when the key is absent; otherwise it lowers the count of the entry by
\* exactly 1, the entry is out of the table after the call exactly if the count
\* reached zero (the return is then 0 or the table's positive code 1), and the
\* return is positive while the count stays positive.
C9_Refdec ==
  [][last'.op = "refdec" =>
       LET e == Entry(hTable, last'.key)
       IN IF e = NULL
          THEN /\ last'.ret < 0
               /\ heap' = heap
               /\ dcalls' = dcalls
               /\ Stored(hTable') = Stored(hTable)
          ELSE /\ heap'[e].count = heap[e].count - 1
               /\ InTable(hTable', e) <=> heap'[e].count > 0
               /\ heap'[e].count = 0 => last'.ret \in {0, 1}
               /\ heap'[e].count > 0 => last'.ret > 0]_vars

\* C10 (delete): RCHashTable_delete of a present key lowers the count of the
\* entry by exactly 1; if the count reached zero the entry is out of the table
\* and freed and its object destroyed once more than before, otherwise the
\* entry stays in the table and is marked for removal; on an absent key the
\* return is negative and nothing changes.
C10_Delete ==
  [][last'.op = "delete" =>
       LET e == Entry(hTable, last'.key)
       IN IF e = NULL
          THEN /\ last'.ret < 0
               /\ heap' = heap
               /\ dcalls' = dcalls
               /\ Stored(hTable') = Stored(hTable)
          ELSE /\ heap'[e].count = heap[e].count - 1
               /\ IF heap'[e].count = 0
                  THEN /\ ~InTable(hTable', e)
                       /\ heap'[e].freed
                       /\ dcalls'[ObjOf(e)] = dcalls[ObjOf(e)] + 1
                  ELSE /\ InTable(hTable', e)
                       /\ heap'[e].marked_for_removal]_vars

\* C11 (delete return code): RCHashTable_delete returns a negative code only
\* when the key was not found; when the key was found it returns 0, or a
\* positive code only because the table failed to start a rehash (the same
\* call with the table allocation succeeding returns 0).
C11_DeleteReturnCode ==
  [][last'.op = "delete" =>
       LET k == last'.key
       IN /\ last'.ret < 0 => Entry(hTable, k) = NULL
          /\ Entry(hTable, k) # NULL =>
                \/ last'.ret = 0
                \/ /\ last'.ret > 0
                   /\ RCHashTable_delete(hTable, Mem, k, HashOf(k), TRUE).ret = 0]_vars

\* C12 (insert return code): whenever RCHashTable_insert returns 0 or a positive
\* code, the record allocated for the pair is chained under the key with count
\* 1 and unmarked; whenever it returns a negative code the key was present
\* before the call and the entries of the table are unchanged.
C12_InsertReturnCode ==
  [][last'.op = "insert" =>
       LET k == last'.key
           r == Len(heap) + 1
       IN /\ last'.ret >= 0 =>
                /\ Len(heap') = r
                /\ r \in RecordsOf(hTable', k)
                /\ heap'[r].count = 1
                /\ heap'[r].obj = ObjOf(r)
                /\ ~heap'[r].marked_for_removal
          /\ last'.ret < 0 =>
                /\ Entry(hTable, k) # NULL
                /\ Stored(hTable') = Stored(hTable)]_vars

(***************************************************************************)
(* Further claims about the chained hash table (checked under SpecHT).     *)
(***************************************************************************)

\* C13 (soft failure of a resize): when an insert or a remove crosses a resize
\* threshold and the secondary table cannot be allocated, the call returns a
\* positive code, its own effect is kept (the inserted key is found, the
\* removed key is not), no migration is in progress afterwards, and the table
\* is left as the same call leaves it when no threshold is crossed: only the
\* chains and the element count of the primary table differ from before.
C13_SoftResizeFailure ==
  [][LET k == last'.key
         crossed ==
           /\ ~Migrating
           /\ \/ /\ last'.op = "insert"
                 /\ \E v \in ValuesOf(k) :
                      /\ hTable' = CHashTable_insert(hTable, k, HashOf(k), v, TRUE, FALSE).h
                      /\ hTable' # CHashTable_insert(hTable, k, HashOf(k), v, TRUE, TRUE).h
              \/ /\ last'.op = "remove"
                 /\ hTable' = CHashTable_remove(hTable, k, HashOf(k), FALSE).h
                 /\ hTable' # CHashTable_remove(hTable, k, HashOf(k), TRUE).h
     IN crossed =>
          /\ last'.ret > 0
          /\ hTable'.secondTable = NoTable
          /\ last'.op = "insert" => LookupValue(hTable', k, HashOf(k)) \in ValuesOf(k)
          /\ last'.op = "remove" => LookupValue(hTable', k, HashOf(k)) = NULL
          /\ hTable'.table.capacity = hTable.table.capacity
          /\ [hTable' EXCEPT !.table = hTable.table] = hTable]_vars

\* C18 (capacities): the capacity of the primary table, and of the secondary
\* table while a migration is in progress, is a power of two, its bitmask is
\* the capacity minus 1, and it is not below the minimum capacity fixed by
\* CHashTable_new.
C18_CapacityPowerOfTwo ==
  LET wellSized(t) ==
        /\ \E i \in 0..31 : t.capacity = Pow2(i)
        /\ t.bitmask = t.capacity - 1
        /\ t.capacity >= hTable.minimumCapacity
  IN /\ wellSized(hTable.table)
     /\ Migrating => wellSized(hTable.secondTable)

\* C18 witness: a remove has started the migration that shrinks the table back
\* to its minimum capacity.
C18_Witness ==
  /\ last.op = "remove"
  /\ Migrating
  /\ hTable.secondTable.capacity = hTable.minimumCapacity
  /\ hTable.secondTable.capacity < hTable.table.capacity
  /\ hTable.rehashFloorThreshold = 0

\* C19 (flush; checked under SpecFlush): after CHashTable_flush the table is
\* empty: CHashTable_getSize returns 0, every lookup returns NULL, no migration
\* is in progress, and the key destructor and the value destructor have been
\* invoked once for every bucket that was in either table.
C19_FlushEmpties ==
  [][last'.op = "flush" =>
       /\ CHashTable_getSize(hTable').ret = 0
       /\ \A k \in Keys : LookupValue(hTable', k, HashOf(k)) = NULL
       /\ hTable'.secondTable = NoTable
       /\ \A o \in FlushObjects :
            dcalls'[o] = dcalls[o]
                         + BucketsWith(hTable.table, o).key
                         + BucketsWith(hTable.table, o).value
                         + BucketsWith(hTable.secondTable, o).key
                         + BucketsWith(hTable.secondTable, o).value]_vars

(***************************************************************************)
(* Claims about the reference counter (checked under SpecCell).            *)
(***************************************************************************)

\* C14 (cell invariant): whenever RC_getCount of the cell returns 0, RC_getObj
\* returns NULL.
C14_ZeroCountNullObject ==
  RC_getCount(Mem, 1) = 0 => RC_getObj(Mem, 1) = NULL

\* C15 (zero is absorbing): on a cell whose count is 0, RC_refinc returns a
\* non-zero code and RC_refdec returns 0, and neither changes the count, the
\* object or the destructor of the cell, nor invokes a destructor.
C15_ZeroAbsorbing ==
  [][(last'.op \in {"RC_refinc", "RC_refdec"} /\ RC_getCount(Mem, 1) = 0) =>
       /\ last'.op = "RC_refinc" => last'.ret # 0
       /\ last'.op = "RC_refdec" => last'.ret = 0
       /\ heap' = heap
       /\ dcalls' = dcalls]_vars

\* C15 witness: RC_refinc has just failed on a cell that reached count 0 by
\* its last release, which destroyed its object once.
C15_Witness ==
  /\ last.op = "RC_refinc"
  /\ last.pre = 0
  /\ last.ret # 0
  /\ RC_getCount(Mem, 1) = 0
  /\ RC_getObj(Mem, 1) = NULL
  /\ dcalls[ObjOf(1)] = 1

\* C16 (destruction at the last release only): on a cell initialised with an
\* object and a destructor and used through RC_refinc and RC_refdec only, a
\* RC_refdec while more than one reference is outstanding (1 for RC_ini plus
\* the successful RC_refinc calls minus the RC_refdec calls) returns non-zero
\* and leaves the object in place; the RC_refdec of the last reference
\* returns 0, invokes the destructor on the object once and leaves the object
\* NULL; and no RC_refdec invokes a destructor unless the count was 1.
C16_DestroyAtLastRelease ==
  [][last'.op = "RC_refdec" =>
       /\ (refs.plain /\ LedgerMany(refs)) =>
             /\ last'.ret # 0
             /\ RC_getObj(Mem, 1)' = RC_getObj(Mem, 1)
             /\ dcalls' = dcalls
       /\ (refs.plain /\ LedgerOne(refs)) =>
             /\ last'.ret = 0
             /\ RC_getObj(Mem, 1)' = NULL
             /\ dcalls' = [dcalls EXCEPT ![RC_getObj(Mem, 1)] = @ + 1]
       /\ dcalls' # dcalls => RC_getCount(Mem, 1) = 1]_vars

\* C17 (forced destruction): RC_freeObj leaves the object NULL and the count
\* and the destructor of the cell as they were, whatever the count is.
C17_FreeObjFrame ==
  [][last'.op = "RC_freeObj" =>
       /\ RC_getObj(Mem, 1)' = NULL
       /\ RC_getCount(Mem, 1)' = RC_getCount(Mem, 1)
       /\ heap'[1].obj_free = heap[1].obj_free]_vars

\* C17 witness: RC_freeObj has just destroyed the object of a cell whose count
\* is 2.
C17_Witness ==
  /\ last.op = "RC_freeObj"
  /\ RC_getCount(Mem, 1) = 2
  /\ RC_getObj(Mem, 1) = NULL
  /\ heap[1].obj_free = FREE
  /\ dcalls[ObjOf(1)] = 1

(***************************************************************************)
(* Claims about the synchronized map (checked under SpecSync).             *)
(***************************************************************************)

\* C20: a record is never freed while a thread that found it with its
\* lookup still is to lock its mutex or holds its mutex.
C20_NoFreeWhileInUse ==
  \A t \in Threads :
    thread[t].pc \in {"lockE", "work"} => ~heap[thread[t].r].freed

\* C21: a thread that is in no call of the synchronized map holds neither
\* the mutex of the map nor the mutex of a record.
C21_ReturnsUnlocked ==
  \A t \in Threads :
    thread[t].pc = "idle" =>
      /\ locks.M # t
      /\ \A r \in DOMAIN locks.E : locks.E[r] # t

\* C22: while a record that a delete_sync marked is in the table under a
\* key, a refinc_sync of that key that works on a record of the table
\* returns NULL and raises no count.
C22_SealedRefinc ==
  [][\A t \in DOMAIN thread :
       /\ thread[t].pc = "work"
       /\ thread[t].op = "refinc"
       /\ thread'[t].pc = "idle"
       /\ ~heap[thread[t].r].freed
       /\ \E r \in RecordsOf(hTable, thread[t].key) :
             heap[r].marked_for_removal /\ ~heap[r].freed
       => /\ last'.ret = NULL
          /\ \A r \in DOMAIN heap : heap'[r].count = heap[r].count]_vars

\* C23: run by one thread, every call of the synchronized map returns what
\* the same call of the unsynchronized map returns in the same state, and
\* leaves the same table, records and destructor calls.
C23_SameAsUnsynchronized ==
  [][thread'[1].pc = "idle" =>
       IF thread[1].pc # "idle"
       THEN \E tableOK \in BOOLEAN :
              /\ last'.ret = stored[tableOK].ret
              /\ AsRCHashTable(hTable') = stored[tableOK].h
              /\ heap' = stored[tableOK].m.heap
              /\ dcalls' = stored[tableOK].m.dcalls
       ELSE IF last'.op = "insert"
       THEN \E f \in Destructors, fail \in AllocFailures :
              \E u \in {RCHashTable_insert(AsRCHashTable(hTable), Mem, last'.key,
                                          HashOf(last'.key), ObjOf(Len(heap) + 1), f,
                                          fail # "record", fail # "bucket",
                                          fail # "table")} :
                /\ last'.ret = u.ret
                /\ AsRCHashTable(hTable') = u.h
                /\ heap' = u.m.heap
                /\ dcalls' = u.m.dcalls
       ELSE \E tableOK \in BOOLEAN :
              \E u \in {RCHashTable_call(last'.op, AsRCHashTable(hTable), Mem,
                                        last'.key, HashOf(last'.key), tableOK)} :
                /\ last'.ret = u.ret
                /\ AsRCHashTable(hTable') = u.h
                /\ heap' = u.m.heap
                /\ dcalls' = u.m.dcalls]_vars

(***************************************************************************)
(* Claims about resizing (C24 is checked under SpecLoad).                  *)
(***************************************************************************)

C25_ReplaceStores ==
  [][/\ (last'.op = "replace" /\ last'.ret = OK) =>
          /\ LookupValue(hTable', last'.key, HashOf(last'.key)) = stored'[last'.key]
          /\ Copies(hTable', last'.key) = 1
     /\ \A k \in Keys :
          /\ stored[k] \in NewValuesOf(k)
          /\ LookupValue(hTable, k, HashOf(k)) = stored[k]
          /\ (last'.key # k \/ last'.op = "lookup")
          => LookupValue(hTable', k, HashOf(k)) = stored[k]]_vars

\* C26: every bucket chained in slot i of the primary or of the secondary
\* table has hash & bitmask = i.
C26_BitSlot ==
  LET slotted(t) ==
        \A p \in TableBuckets(t) :
          BitAnd(t.buckets[p[1]][p[2]].hash, t.bitmask) = p[1]
  IN slotted(hTable.table) /\ slotted(hTable.secondTable)

\* C26 witness: a migration has moved a bucket to a slot of the secondary
\* table that differs from its slot in the primary, and a replace has
\* chained a bucket.
C26_Witness ==
  /\ Migrating
  /\ Replaces > 0
  /\ \E p \in TableBuckets(hTable.secondTable) :
       /\ BitAnd(hTable.secondTable.buckets[p[1]][p[2]].hash, hTable.table.bitmask) # p[1]
       /\ hTable.secondTable.buckets[p[1]][p[2]].value \notin
            NewValuesOf(hTable.secondTable.buckets[p[1]][p[2]].key)
  /\ \E p \in TableBuckets(hTable.table) :
       hTable.table.buckets[p[1]][p[2]].value \in
         NewValuesOf(hTable.table.buckets[p[1]][p[2]].key)

\* C27 (checked under SpecFlush): the nelems of each table is the number of
\* buckets chained in its slots, and the size CHashTable_getSize returns is
\* the number of buckets stored.
C27_NelemsCounts ==
  /\ hTable.table.nelems = Cardinality(TableBuckets(hTable.table))
  /\ hTable.secondTable.nelems = Cardinality(TableBuckets(hTable.secondTable))
  /\ CHashTable_getSize(hTable).ret =
       Cardinality(TableBuckets(hTable.table))
       + Cardinality(TableBuckets(hTable.secondTable))

\* C28 (checked under SpecReplace): while a secondary table is present every
\* slot of the primary below rehashPoint is empty, and no call made during
\* a migration leaves the primary with more buckets of a key than it had.
C28_MigrationPartition ==
  [][/\ hTable'.secondTable # NoTable =>
          \A i \in 0..(hTable'.rehashPoint - 1) : hTable'.table.buckets[i] = <<>>
     /\ (hTable.secondTable # NoTable /\ hTable'.secondTable # NoTable) =>
          \A k \in Keys :
            Cardinality({p \in TableBuckets(hTable'.table) :
                           hTable'.table.buckets[p[1]][p[2]].key = k})
            <= Cardinality({p \in TableBuckets(hTable.table) :
                              hTable.table.buckets[p[1]][p[2]].key = k})]_vars

\* C29 (checked under SpecHT): whenever no migration is in progress, the
\* ceiling threshold is capacity * maxLoadFactor / 100 and the floor
\* threshold is capacity * minLoadFactor / 100 if the capacity differs from
\* the minimum capacity and 0 otherwise.
C29_Thresholds ==
  ~Migrating =>
    /\ hTable.rehashCeilThreshold =
         MulDiv100(hTable.table.capacity, hTable.maxLoadFactor)
    /\ hTable.rehashFloorThreshold =
         IF hTable.table.capacity # hTable.minimumCapacity
         THEN MulDiv100(hTable.table.capacity, hTable.minLoadFactor)
         ELSE 0

\* C30 (checked under SpecHT): a call made while no migration is in progress
\* starts one (a secondary table is present after it, or the primary has
\* changed capacity) only if it is an insert that leaves more elements than
\* rehashCeilThreshold, the new table having twice the capacity, or a remove
\* that leaves fewer elements than rehashFloorThreshold, the new table having
\* half the capacity; and an insert or remove that returns 0 in such a case
\* does start one.
C30_MigrationStart ==
  [][LET n == hTable'.table.nelems + hTable'.secondTable.nelems
         cap == hTable.table.capacity
         newcap == IF hTable'.secondTable # NoTable
                   THEN hTable'.secondTable.capacity
                   ELSE hTable'.table.capacity
         started == hTable'.secondTable # NoTable \/ newcap # cap
         grows == last'.op = "insert" /\ hTable.rehashCeilThreshold < n
         shrinks == last'.op = "remove" /\ n < hTable.rehashFloorThreshold
     IN /\ hTable.secondTable # NoTable =>
             (hTable'.secondTable # NoTable \/ newcap = hTable.secondTable.capacity)
        /\ hTable.secondTable = NoTable =>
             /\ started => \/ grows /\ newcap = 2 * cap
                           \/ shrinks /\ newcap = cap \div 2
             /\ ((grows \/ shrinks) /\ last'.ret = 0) => started]_vars

\* C30, amended (checked under SpecHT): a call made while no migration is in
\* progress starts one only if it is an insert or a remove, and then the new
\* table has twice the capacity if the call leaves more elements than
\* rehashCeilThreshold, and half the capacity if it does not and leaves fewer
\* than rehashFloorThreshold; an insert or remove that returns 0 in one of
\* these cases does start one; the slots of the primary below rehashPoint are
\* empty after the call; and a call made during a migration allocates no table.
C30_MigrationStartOnCheck ==
  [][LET n == hTable'.table.nelems + hTable'.secondTable.nelems
         cap == hTable.table.capacity
         newcap == IF hTable'.secondTable # NoTable
                   THEN hTable'.secondTable.capacity
                   ELSE hTable'.table.capacity
         started == hTable'.secondTable # NoTable \/ newcap # cap
         checked == last'.op \in {"insert", "remove"}
         grows == checked /\ hTable.rehashCeilThreshold < n
         shrinks == checked /\ ~grows /\ n < hTable.rehashFloorThreshold
     IN /\ hTable.secondTable # NoTable =>
             (hTable'.secondTable # NoTable \/ newcap = hTable.secondTable.capacity)
        /\ hTable.secondTable = NoTable =>
             /\ started => \/ grows /\ newcap = 2 * cap
                           \/ shrinks /\ newcap = cap \div 2
             /\ ((grows \/ shrinks) /\ last'.ret = 0) => started
             /\ hTable'.secondTable # NoTable =>
                  \A i \in 0..(hTable'.rehashPoint - 1) :
                     hTable'.table.buckets[i] = <<>>]_vars

\* C30 witness: a remove of a stored key has left a table of capacity 1 with a
\* secondary table of capacity 2 that holds the one remaining element
C30_GrowsAfterRemove ==
  /\ last.op = "remove"
  /\ last.pre # NULL
  /\ last.ret = 0
  /\ hTable.secondTable # NoTable
  /\ hTable.table.capacity = 1
  /\ hTable.secondTable.capacity = 2
  /\ hTable.table.nelems = 0
  /\ hTable.secondTable.nelems = 1
  /\ hTable.rehashPoint = 0

\* C31 (checked under SpecMigration): a migration in progress ends (the
\* secondary table becomes the primary) as the calls continue; while it
\* lasts no call increases the primary's nelems or decreases rehashPoint; and
\* the call that ends it leaves every key in as many buckets as before, but
\* for the key the call itself inserts or removes.
C31_MigrationTerminates ==
  /\ (hTable.secondTable # NoTable) ~> (hTable.secondTable = NoTable)
  /\ [][hTable.secondTable # NoTable =>
          /\ hTable.maxRehashes >= 1
          /\ hTable'.secondTable # NoTable =>
               /\ hTable'.table.nelems <= hTable.table.nelems
               /\ hTable'.rehashPoint >= hTable.rehashPoint
               /\ hTable'.table.capacity = hTable.table.capacity
          /\ hTable'.secondTable = NoTable =>
               /\ hTable'.table.capacity = hTable.secondTable.capacity
               /\ \A k \in Keys :
                    (k # last'.key \/ last'.op \in {"lookup", "getSize"}) =>
                       Copies(hTable', k) = Copies(hTable, k)
               /\ hTable'.table.nelems =
                    Cardinality(TableBuckets(hTable'.table))]_vars

\* C31 witness: a lookup has ended a migration and left the key it found in
\* the promoted table
C31_Promoted ==
  /\ last.op = "lookup"
  /\ last.ret # NULL
  /\ hTable.secondTable = NoTable
  /\ hTable.table.capacity # hTable.minimumCapacity
  /\ hTable.rehashPoint = hTable.table.capacity \div 2 - 1
  /\ Copies(hTable, last.key) = 1

\* C32 (checked under SpecSync): a thread locks the mutex of a record only
\* while it holds the mutex of the map, and a thread about to lock the mutex
\* of the map (at the start of a call, or before the removal that ends one)
\* holds the mutex of no record.
C32_LockOrder ==
  [][\A t \in Threads :
       /\ \A r \in DOMAIN locks'.E :
            (locks'.E[r] = t /\ (r \notin DOMAIN locks.E \/ locks.E[r] # t))
               => locks.M = t
       /\ thread'[t].pc \in {"idle", "relock"} =>
            \A r \in DOMAIN locks'.E : locks'.E[r] # t]_vars

\* C32 witness: one thread works on a record with its mutex locked while
\* another is about to lock the mutex of the map again
C32_BothLocksInUse ==
  \E t, u \in Threads :
    /\ thread[t].pc = "work"
    /\ locks.E[thread[t].r] = t
    /\ thread[u].pc = "relock"
    /\ locks.M = 0

\* C33 (checked under SpecSync): every step that calls into the table
\* (insert, lookup or remove: the steps that end with a result in last or
\* that leave a thread between the lookup and the lock of the record) is
\* taken when no other thread holds the mutex of the map, and a thread that
\* is between its lookup and the unlock of the map holds that mutex, so that
\* there is at most one such thread.
C33_TableSerialized ==
  [][/\ (hTable' # hTable \/ Len(heap') # Len(heap)) => locks.M = 0
     /\ \A t \in Threads :
          (thread[t].pc = "idle" /\ thread'[t].pc = "lockE") => locks.M = 0
     /\ \A t \in Threads : thread'[t].pc = "lockE" => locks'.M = t
     /\ Cardinality({t \in Threads : thread'[t].pc = "lockE"}) <= 1]_vars

\* C33 witness: a thread holds the mutex of the map after its lookup while
\* another thread waits for it to remove the key
C33_Contention ==
  \E t, u \in Threads :
    /\ thread[t].pc = "lockE"
    /\ locks.M = t
    /\ thread[u].pc = "relock"

\* C34 (checked under SpecSync): a step that changes a field of a record
\* that the table holds is taken by a thread that holds the mutex of that
\* record.
C34_EntryFieldsUnderE ==
  [][\A r \in DOMAIN heap :
       (/\ heap'[r] # heap[r]
        /\ BucketsWith(hTable.table, r).value
             + BucketsWith(hTable.secondTable, r).value > 0)
       => \E t \in Threads : locks.E[r] = t /\ thread'[t] # thread[t]]_vars

\* C35 (checked under SpecSync): a step that invokes a value destructor is
\* the work of a thread on a record whose mutex it holds, and that thread
\* does not hold the mutex of the map: no destructor runs in the steps that
\* insert into or remove from the table, which hold the mutex of the map.
C35_DestructorOutsideM ==
  [][dcalls' # dcalls =>
       \E t \in Threads :
         /\ thread[t].pc = "work"
         /\ thread'[t] # thread[t]
         /\ locks.E[thread[t].r] = t
         /\ locks.M # t]_vars

\* C36 (checked under SpecSync): the removal that ends a remove_sync,
\* delete_sync or refdec_sync takes out of the table, and frees, no record
\* but the one the call found with its lookup.
C36_RemovesOwnEntry ==
  [][\A t \in Threads :
       (thread[t].pc = "relock" /\ thread'[t].pc = "idle") =>
         \A r \in DOMAIN heap :
           r # thread[t].r =>
             /\ InTable(hTable, r) => InTable(hTable', r)
             /\ heap'[r] = heap[r]
             /\ dcalls'[ObjOf(r)] = dcalls[ObjOf(r)]]_vars

\* C37 (checked under SpecSync): an insert that returns a negative code
\* invokes no destructor, and the object the caller passed has not been
\* destroyed by it.
C37_FailedInsertKeepsValue ==
  [][(last'.op = "insert" /\ last'.ret < 0 /\ Len(heap') > Len(heap)) =>
       /\ dcalls' = dcalls
       /\ dcalls'[ObjOf(Len(heap'))] = 0]_vars

\* C38 (checked under SpecReplace): no key is held by more than one bucket of
\* the primary and the secondary table together.
C38_KeyUnique ==
  \A k \in Keys : Copies(hTable, k) <= 1

\* C39 (checked under SpecCell): on a cell that holds an object, a RC_refinc
\* that returns 0 leaves the object in place and a count that is the count
\* before plus 1, which is not 0 (the count before is not UINT_MAX).
C39_RefincIncreases ==
  [][(last'.op = "RC_refinc" /\ last'.ret = 0 /\ RC_getObj(Mem, 1) # NULL) =>
       /\ RC_getObj(Mem, 1)' = RC_getObj(Mem, 1)
       /\ RC_getCount(Mem, 1)' = UIntInc(RC_getCount(Mem, 1))
       /\ RC_getCount(Mem, 1) # UINT_MAX
       /\ RC_getCount(Mem, 1)' # 0]_vars

====
